---- MODULE Spec2Model ----
(***************************************************************************)
(* Model of nu_history_tool/cli.py: one run of the command `main`.         *)
(*                                                                         *)
(* Text is a tuple of one-character strings.  A calendar date is its       *)
(* proleptic Gregorian ordinal (0001-01-01 = 1).  A timezone-aware         *)
(* datetime is its wall-clock fields (day ordinal, second of the day)      *)
(* together with its UTC offset in seconds.                                *)
(***************************************************************************)
EXTENDS Integers, Sequences, FiniteSets, TLC

VARIABLES pc, procRet, csv, startArg, endArg, fmtArg, localOff, now,
          acquired, df, startVal, endVal, out, exc, exitCode

vars == <<pc, procRet, csv, startArg, endArg, fmtArg, localOff, now,
          acquired, df, startVal, endVal, out, exc, exitCode>>

inputs == <<procRet, csv, startArg, endArg, fmtArg, localOff, now>>

----------------------------------------------------------------------------
(* Bounds of the model.                                                    *)

MaxRows == 2

----------------------------------------------------------------------------
(* datetime: calendar arithmetic.                                          *)

SecondsPerDay == 86400

\* date.max.toordinal(): 9999-12-31
MaxOrdinal == 3652059

IsLeap(y) == (y % 4 = 0) /\ ((y % 100 # 0) \/ (y % 400 = 0))

DaysInMonth(y, m) ==
    IF m = 2 THEN (IF IsLeap(y) THEN 29 ELSE 28)
    ELSE IF m \in {4, 6, 9, 11} THEN 30 ELSE 31

DaysBeforeYear(y) ==
    (y - 1) * 365 + ((y - 1) \div 4) - ((y - 1) \div 100) + ((y - 1) \div 400)

RECURSIVE DaysBeforeMonth(_, _)
DaysBeforeMonth(y, m) ==
    IF m = 1 THEN 0 ELSE DaysBeforeMonth(y, m - 1) + DaysInMonth(y, m - 1)

Ordinal(y, m, d) == DaysBeforeYear(y) + DaysBeforeMonth(y, m) + d

ValidDate(y, m, d) ==
    /\ y >= 1 /\ y <= 9999
    /\ m >= 1 /\ m <= 12
    /\ d >= 1 /\ d <= DaysInMonth(y, m)

\* carry the seconds into the day
Norm(day, sec) ==
    [day |-> day + (sec \div SecondsPerDay), sec |-> sec % SecondsPerDay]

\* the instant of an aware datetime, as a (day, second) pair in UTC
UTC(dt) == Norm(dt.day, dt.sec - dt.off)

InRange(day) == day >= 1 /\ day <= MaxOrdinal

\* instants compare on their UTC value
InstLE(a, b) ==
    LET x == UTC(a)
        y == UTC(b)
    IN  x.day < y.day \/ (x.day = y.day /\ x.sec <= y.sec)

----------------------------------------------------------------------------
(* Values of parse_date_or_datetime: None, a date, an aware datetime, or   *)
(* the exception that leaves the function.                                 *)

NoneVal == [kind |-> "None", day |-> 0, sec |-> 0, off |-> 0]

DateVal(day) == [kind |-> "date", day |-> day, sec |-> 0, off |-> 0]

DatetimeVal(day, sec, off) ==
    [kind |-> "datetime", day |-> day, sec |-> sec, off |-> off]

Raises(e) == [kind |-> e, day |-> 0, sec |-> 0, off |-> 0]

IsRaise(v) == v.kind \in {"BadParameter", "OverflowError"}

----------------------------------------------------------------------------
(* Text helpers.                                                           *)

DigitVal ==
    ("0" :> 0) @@ ("1" :> 1) @@ ("2" :> 2) @@ ("3" :> 3) @@ ("4" :> 4) @@
    ("5" :> 5) @@ ("6" :> 6) @@ ("7" :> 7) @@ ("8" :> 8) @@ ("9" :> 9)

IsDigit(c) == c \in DOMAIN DigitVal

AllDigits(s, i, j) == \A k \in i..j : IsDigit(s[k])

\* int(s[i..j])
RECURSIVE Num(_, _, _)
Num(s, i, j) == IF j < i THEN 0 ELSE Num(s, i, j - 1) * 10 + DigitVal[s[j]]

HasT(s) == \E k \in 1..Len(s) : s[k] = "T"

----------------------------------------------------------------------------
(* parse_date_or_datetime.                                                 *)

\* re.fullmatch(r"(\d{1,2}):(\d{2})(?::(\d{2}))?", value)
TimeColon(s) == IF Len(s) >= 2 /\ s[2] = ":" THEN 2 ELSE 3

TimeMatch(s) ==
    LET c == TimeColon(s)
        n == Len(s)
    IN  /\ n \in {c + 2, c + 5}
        /\ s[c] = ":"
        /\ AllDigits(s, 1, c - 1)
        /\ AllDigits(s, c + 1, c + 2)
        /\ (n = c + 5) => (s[c + 3] = ":" /\ AllDigits(s, c + 4, c + 5))

TimeHour(s) == Num(s, 1, TimeColon(s) - 1)

TimeMinute(s) == Num(s, TimeColon(s) + 1, TimeColon(s) + 2)

TimeSecond(s) ==
    IF Len(s) = TimeColon(s) + 5
    THEN Num(s, TimeColon(s) + 4, TimeColon(s) + 5)
    ELSE 0

\* datetime.now(tz=tz.tzlocal()).date()
Today(nowUtc, local) == Norm(nowUtc.day, nowUtc.sec + local).day

\* lines 49-54: ValueError of time.replace becomes BadParameter at line 67
ParseClock(s, nowUtc, local) ==
    LET hour == TimeHour(s)
        minute == TimeMinute(s)
        second == TimeSecond(s)
    IN  IF hour > 23 \/ minute > 59 \/ second > 59
        THEN Raises("BadParameter")
        ELSE DatetimeVal(Today(nowUtc, local),
                         hour * 3600 + minute * 60 + second, local)

\* datetime.strptime(value, "%Y-%m-%d"): four digits of year, then a month
\* and a day of one or two digits each
DateDash(s) == IF Len(s) >= 7 /\ s[7] = "-" THEN 7 ELSE 8

StrptimeMatch(s) ==
    LET p == DateDash(s)
        n == Len(s)
    IN  /\ n >= p + 1 /\ n <= p + 2
        /\ AllDigits(s, 1, 4)
        /\ s[5] = "-"
        /\ s[p] = "-"
        /\ AllDigits(s, 6, p - 1)
        /\ AllDigits(s, p + 1, n)
        /\ Num(s, 6, p - 1) \in 1..12
        /\ Num(s, p + 1, n) \in 1..31
        /\ ValidDate(Num(s, 1, 4), Num(s, 6, p - 1), Num(s, p + 1, n))

\* line 58
ParseDate(s) ==
    IF StrptimeMatch(s)
    THEN DateVal(Ordinal(Num(s, 1, 4), Num(s, 6, DateDash(s) - 1),
                         Num(s, DateDash(s) + 1, Len(s))))
    ELSE Raises("BadParameter")

\* datetime.fromisoformat(value), for the shapes YYYY-MM-DDTHH:MM:SS and
\* YYYY-MM-DDTHH:MM:SS(+|-)HH:MM; every other text is a ValueError
IsoMatch(s) ==
    /\ Len(s) \in {19, 25}
    /\ AllDigits(s, 1, 4) /\ s[5] = "-" /\ AllDigits(s, 6, 7)
    /\ s[8] = "-" /\ AllDigits(s, 9, 10) /\ s[11] = "T"
    /\ AllDigits(s, 12, 13) /\ s[14] = ":" /\ AllDigits(s, 15, 16)
    /\ s[17] = ":" /\ AllDigits(s, 18, 19)
    /\ ValidDate(Num(s, 1, 4), Num(s, 6, 7), Num(s, 9, 10))
    /\ Num(s, 12, 13) <= 23 /\ Num(s, 15, 16) <= 59 /\ Num(s, 18, 19) <= 59
    /\ (Len(s) = 25) =>
          /\ s[20] \in {"+", "-"}
          /\ AllDigits(s, 21, 22) /\ s[23] = ":" /\ AllDigits(s, 24, 25)
          /\ Num(s, 21, 22) <= 23 /\ Num(s, 24, 25) <= 59

IsoDay(s) == Ordinal(Num(s, 1, 4), Num(s, 6, 7), Num(s, 9, 10))

IsoSec(s) == Num(s, 12, 13) * 3600 + Num(s, 15, 16) * 60 + Num(s, 18, 19)

IsoAware(s) == Len(s) = 25

IsoOff(s) ==
    (IF s[20] = "-" THEN -1 ELSE 1)
        * (Num(s, 21, 22) * 3600 + Num(s, 24, 25) * 60)

\* dt.astimezone(tz.tzlocal()): utc = dt - dt.utcoffset(), then
\* tz.fromutc(utc) = utc + local offset; an out-of-range date in either
\* step is an OverflowError
Astimezone(dt, local) ==
    LET utc == UTC(dt)
        loc == Norm(utc.day, utc.sec + local)
    IN  IF ~InRange(utc.day) \/ ~InRange(loc.day)
        THEN Raises("OverflowError")
        ELSE DatetimeVal(loc.day, loc.sec, local)

\* lines 60-66
ParseIso(s, local) ==
    IF ~IsoMatch(s) THEN Raises("BadParameter")
    ELSE IF ~IsoAware(s) THEN DatetimeVal(IsoDay(s), IsoSec(s), local)
    ELSE Astimezone(DatetimeVal(IsoDay(s), IsoSec(s), IsoOff(s)), local)

\* parse_date_or_datetime with the date rule tried before the clock rule
ParseDateFirst(value, nowUtc, local) ==
    IF value = <<>> THEN NoneVal
    ELSE IF ~HasT(value) THEN ParseDate(value)
    ELSE IF TimeMatch(value) THEN ParseClock(value, nowUtc, local)
    ELSE ParseIso(value, local)

parse_date_or_datetime(value, nowUtc, local) ==
    IF value = <<>> THEN NoneVal
    ELSE IF TimeMatch(value) THEN ParseClock(value, nowUtc, local)
    ELSE IF ~HasT(value) THEN ParseDate(value)
    ELSE ParseIso(value, local)

----------------------------------------------------------------------------
(* The inputs of a run: what the nu subprocess returned, the command-line  *)
(* options, the local timezone and the clock.                              *)

\* "2024-01-02"
TxtDate ==
    <<"2", "0", "2", "4", "-", "0", "1", "-", "0", "2">>

\* "2024-1-3"
TxtShortDate ==
    <<"2", "0", "2", "4", "-", "1", "-", "3">>

\* "9:00"
TxtClock ==
    <<"9", ":", "0", "0">>

\* "23:30:15"
TxtClockSec ==
    <<"2", "3", ":", "3", "0", ":", "1", "5">>

\* "99:99"
TxtBadClock ==
    <<"9", "9", ":", "9", "9">>

\* "2024-01-02T23:00:00"
TxtNaiveIso ==
    <<"2", "0", "2", "4", "-", "0", "1", "-", "0", "2", "T", "2",
      "3", ":", "0", "0", ":", "0", "0">>

\* "2024-01-03T00:30:00+02:00"
TxtAwareIso ==
    <<"2", "0", "2", "4", "-", "0", "1", "-", "0", "3", "T", "0",
      "0", ":", "3", "0", ":", "0", "0", "+", "0", "2", ":", "0",
      "0">>

\* "0001-01-01T00:00:00+01:00"
TxtMinIso ==
    <<"0", "0", "0", "1", "-", "0", "1", "-", "0", "1", "T", "0",
      "0", ":", "0", "0", ":", "0", "0", "+", "0", "1", ":", "0",
      "0">>

\* "01/02"
TxtJunk ==
    <<"0", "1", "/", "0", "2">>

BoundTexts ==
    {<<>>, TxtDate, TxtShortDate, TxtClock, TxtClockSec, TxtBadClock,
     TxtNaiveIso, TxtAwareIso, TxtMinIso, TxtJunk}

FormatTexts == {"table", "json", "csv", "JSON", "Table", "xml"}

\* utcoffset of tz.tzlocal(), in seconds
LocalOffsets == {0 - 18000, 0, 7200}

\* the clock read by datetime.now: 2024-01-02 22:30:00 UTC
NowSet == {[day |-> Ordinal(2024, 1, 2), sec |-> 81000, off |-> 0]}

\* a start_timestamp cell of the CSV text: empty, not of the pattern
\* "%Y-%m-%d %H:%M:%S%.f %z", or of the pattern with these fields
NullCell == [kind |-> "null", day |-> 0, sec |-> 0, off |-> 0]

BadCell == [kind |-> "bad", day |-> 0, sec |-> 0, off |-> 0]

Cell(y, m, d, sec, off) ==
    [kind |-> "ts", day |-> Ordinal(y, m, d), sec |-> sec, off |-> off]

Rows ==
    {[command |-> "ls", start_timestamp |-> Cell(2024, 1, 2, 36000, 0)],
     [command |-> "cd", start_timestamp |-> Cell(2024, 1, 3, 1800, 7200)],
     [command |-> "git", start_timestamp |-> Cell(2024, 1, 3, 10800, 0)],
     [command |-> "vi", start_timestamp |-> NullCell],
     [command |-> "rm", start_timestamp |-> BadCell]}

RowSeqs == UNION {[1..n -> Rows] : n \in 0..MaxRows}

AllCols == {"command", "cwd", "start_timestamp"}

\* stdout of the subprocess as read_csv sees it: the header and the rows;
\* no header at all is the empty text
EmptyStdout == [cols |-> {}, rows |-> <<>>]

CsvSet ==
    {EmptyStdout, [cols |-> {"command", "cwd"}, rows |-> <<>>]}
    \cup {[cols |-> AllCols, rows |-> r] : r \in RowSeqs}
    \cup {[cols |-> {"command", "start_timestamp"}, rows |-> r] :
             r \in {q \in RowSeqs : Len(q) <= 1}}

----------------------------------------------------------------------------
(* Exceptions and the exit status of the process.                          *)

NoExc == [type |-> "none"]

\* typer.Exit(code=n), typer.Exit()
ExitCode(n) == [type |-> "Exit", exit_code |-> n]

\* typer.Exit("text"): the text takes the place of the code
ExitText(t) == [type |-> "Exit", text |-> t]

BadParameter(value) == [type |-> "BadParameter", value |-> value]

Uncaught(name) == [type |-> name]

\* app(): Exit -> sys.exit(exit_code), where a text is printed to stderr
\* with status 1; a ClickException (BadParameter) -> status 2; any other
\* exception -> traceback, status 1; return -> status 0
ExitStatus(e) ==
    IF e.type = "none" THEN 0
    ELSE IF e.type = "Exit"
         THEN (IF "exit_code" \in DOMAIN e THEN e.exit_code ELSE 1)
    ELSE IF e.type = "BadParameter" THEN 2
    ELSE 1

Echo(t) == [kind |-> "echo", text |-> t]

----------------------------------------------------------------------------
(* The run.                                                                *)

Init ==
    /\ pc = "get_nu_history"
    /\ procRet \in {0, 1}
    /\ csv \in (IF procRet = 0 THEN CsvSet ELSE {EmptyStdout})
    /\ startArg \in BoundTexts
    /\ endArg \in BoundTexts
    /\ fmtArg \in FormatTexts
    /\ localOff \in LocalOffsets
    /\ now \in NowSet
    /\ acquired = <<>>
    /\ df = <<>>
    /\ startVal = NoneVal
    /\ endVal = NoneVal
    /\ out = <<>>
    /\ exc = NoExc
    /\ exitCode = 0 - 1

\* the run ends with exception e leaving main
Terminate(e) ==
    /\ pc' = "done"
    /\ exc' = e
    /\ exitCode' = ExitStatus(e)

\* df.filter(pl.col("start_timestamp").is_not_null())
DropNull(rows) == SelectSeq(rows, LAMBDA r : r.start_timestamp.kind # "null")

\* str.strptime(pl.Datetime, "%Y-%m-%d %H:%M:%S%.f %z"): the column
\* becomes a datetime column in UTC
Strptime(cell) ==
    [day |-> UTC(cell).day, sec |-> UTC(cell).sec, off |-> 0]

StrptimeRows(rows) ==
    [i \in 1..Len(rows) |->
        [command |-> rows[i].command,
         start_timestamp |-> Strptime(rows[i].start_timestamp)]]

StrptimeFails(rows) ==
    \E i \in 1..Len(rows) : rows[i].start_timestamp.kind = "bad"

ParseFailed == ExitText("Failed to parse Nushell history CSV: ")

\* lines 13-39
GetNuHistory ==
    /\ pc = "get_nu_history"
    /\ IF procRet # 0
       THEN /\ Terminate(ExitText("Failed to get nushell history: "))
            /\ UNCHANGED <<df, acquired, out>>
       ELSE IF csv.cols = {}
       THEN \* read_csv raises NoDataError, caught at line 38
            /\ Terminate(ParseFailed)
            /\ UNCHANGED <<df, acquired, out>>
       ELSE IF "start_timestamp" \notin csv.cols
       THEN \* typer.Exit(code=1) of line 30 is caught at line 38
            /\ out' = out \o
                 <<Echo("Error: 'start_timestamp' column not found in Nushell history."),
                   [kind |-> "echo", text |-> "Available columns are: ",
                    columns |-> csv.cols],
                   Echo("This might happen if the script's environment doesn't load your full Nushell configuration.")>>
            /\ Terminate(ParseFailed)
            /\ UNCHANGED <<df, acquired>>
       ELSE IF StrptimeFails(DropNull(csv.rows))
       THEN /\ Terminate(ParseFailed)
            /\ UNCHANGED <<df, acquired, out>>
       ELSE /\ df' = StrptimeRows(DropNull(csv.rows))
            /\ acquired' = df'
            /\ pc' = "filter_start"
            /\ UNCHANGED <<out, exc, exitCode>>
    /\ UNCHANGED <<inputs, startVal, endVal>>

\* the exception parse_date_or_datetime leaves with
ParseExc(v, value) ==
    IF v.kind = "BadParameter" THEN BadParameter(value) ELSE Uncaught(v.kind)

\* KeepFrom with the start bound excluded
KeepFromExclusive(d, v) ==
    IF v.kind = "date"
    THEN SelectSeq(d, LAMBDA r : r.start_timestamp.day > v.day)
    ELSE SelectSeq(d, LAMBDA r : ~InstLE(r.start_timestamp, v))

\* lines 96-99
KeepFrom(d, v) ==
    IF v.kind = "date"
    THEN SelectSeq(d, LAMBDA r : r.start_timestamp.day >= v.day)
    ELSE SelectSeq(d, LAMBDA r : InstLE(v, r.start_timestamp))

\* KeepUpTo that loses the last row it kept
KeepUpToShort(d, v) ==
    LET kept == IF v.kind = "date"
                THEN SelectSeq(d, LAMBDA r : r.start_timestamp.day <= v.day)
                ELSE SelectSeq(d, LAMBDA r : InstLE(r.start_timestamp, v))
    IN  SubSeq(kept, 1, Len(kept) - 1)

\* lines 103-106
KeepUpTo(d, v) ==
    IF v.kind = "date"
    THEN SelectSeq(d, LAMBDA r : r.start_timestamp.day <= v.day)
    ELSE SelectSeq(d, LAMBDA r : InstLE(r.start_timestamp, v))

\* lines 94-99
FilterStart ==
    /\ pc = "filter_start"
    /\ IF startArg = <<>>
       THEN /\ pc' = "filter_end"
            /\ UNCHANGED <<df, startVal, exc, exitCode>>
       ELSE LET start_val == parse_date_or_datetime(startArg, now, localOff)
            IN  IF IsRaise(start_val)
                THEN /\ Terminate(ParseExc(start_val, startArg))
                     /\ UNCHANGED <<df, startVal>>
                ELSE /\ startVal' = start_val
                     /\ df' = KeepFrom(df, start_val)
                     /\ pc' = "filter_end"
                     /\ UNCHANGED <<exc, exitCode>>
    /\ UNCHANGED <<inputs, acquired, endVal, out>>

\* lines 101-106
FilterEnd ==
    /\ pc = "filter_end"
    /\ IF endArg = <<>>
       THEN /\ pc' = "check_empty"
            /\ UNCHANGED <<df, endVal, exc, exitCode>>
       ELSE LET end_val == parse_date_or_datetime(endArg, now, localOff)
            IN  IF IsRaise(end_val)
                THEN /\ Terminate(ParseExc(end_val, endArg))
                     /\ UNCHANGED <<df, endVal>>
                ELSE /\ endVal' = end_val
                     /\ df' = KeepUpTo(df, end_val)
                     /\ pc' = "check_empty"
                     /\ UNCHANGED <<exc, exitCode>>
    /\ UNCHANGED <<inputs, acquired, startVal, out>>

\* lines 108-110
CheckEmpty ==
    /\ pc = "check_empty"
    /\ IF Len(df) = 0
       THEN /\ out' = Append(out, Echo("No history found for the given date range."))
            /\ Terminate(ExitCode(0))
       ELSE /\ pc' = "render"
            /\ UNCHANGED <<out, exc, exitCode>>
    /\ UNCHANGED <<inputs, acquired, df, startVal, endVal>>

\* lines 113-117
OutputDf(d) ==
    [i \in 1..Len(d) |->
        [command |-> d[i].command, start_time |-> d[i].start_timestamp]]

\* lines 126-137: the start time shown in the local timezone
TableRows(d, local) ==
    [i \in 1..Len(d) |->
        [command |-> d[i].command,
         start_time |-> Astimezone(d[i].start_time, local)]]

\* the typer option of lines 81-87 is of type str: the text is passed on
\* as it was typed
output_format == fmtArg

\* Dispatch where a format that is not known is shown as a table
DispatchDefaultTable(fmt, d, local) ==
    IF fmt = "json"
    THEN [events |-> <<[kind |-> "json", rows |-> d]>>, exc |-> NoExc]
    ELSE IF fmt = "csv"
    THEN [events |-> <<[kind |-> "csv", rows |-> d]>>, exc |-> NoExc]
    ELSE [events |-> <<[kind |-> "table", rows |-> TableRows(d, local)]>>,
          exc |-> NoExc]

\* Dispatch with `if` in place of the first `elif`: the table is printed
\* and the final else is taken as well
DispatchIfChain(fmt, d, local) ==
    LET unknown == [kind |-> "echo", text |-> "Unknown output format: ",
                    value |-> fmt]
    IN  IF fmt = "table"
        THEN [events |-> <<[kind |-> "table", rows |-> TableRows(d, local)],
                           unknown>>,
              exc |-> ExitCode(1)]
        ELSE IF fmt = "json"
        THEN [events |-> <<[kind |-> "json", rows |-> d]>>, exc |-> NoExc]
        ELSE IF fmt = "csv"
        THEN [events |-> <<[kind |-> "csv", rows |-> d]>>, exc |-> NoExc]
        ELSE [events |-> <<unknown>>, exc |-> ExitCode(1)]

\* lines 119-146: what is written and how main is left
Dispatch(fmt, d, local) ==
    IF fmt = "table"
    THEN [events |-> <<[kind |-> "table", rows |-> TableRows(d, local)]>>,
          exc |-> NoExc]
    ELSE IF fmt = "json"
    THEN [events |-> <<[kind |-> "json", rows |-> d]>>, exc |-> NoExc]
    ELSE IF fmt = "csv"
    THEN [events |-> <<[kind |-> "csv", rows |-> d]>>, exc |-> NoExc]
    ELSE [events |-> <<[kind |-> "echo", text |-> "Unknown output format: ",
                        value |-> fmt]>>,
          exc |-> ExitCode(1)]

\* lines 112-146
Render ==
    /\ pc = "render"
    /\ IF ~({"command", "cwd"} \subseteq csv.cols)
       THEN \* df.select of line 113
            /\ Terminate(Uncaught("ColumnNotFoundError"))
            /\ UNCHANGED out
       ELSE LET r == Dispatch(output_format, OutputDf(df), localOff)
            IN  /\ out' = out \o r.events
                /\ Terminate(r.exc)
    /\ UNCHANGED <<inputs, acquired, df, startVal, endVal>>

Next == GetNuHistory \/ FilterStart \/ FilterEnd \/ CheckEmpty \/ Render

Spec == Init /\ [][Next]_vars

----------------------------------------------------------------------------
(* Properties.                                                             *)

\* seconds from 2024-01-01T00:00:00Z to the instant of an aware datetime
EpochSec(dt) == (dt.day - Ordinal(2024, 1, 1)) * 86400 + dt.sec - dt.off

\* the calendar date of an instant in the local timezone
LocalDate(dt, local) ==
    Ordinal(2024, 1, 1) + ((EpochSec(dt) + local) \div 86400)

\* both filters of main have run
Filtered == pc = "check_empty"

InstantOrAbsent(v) == v.kind \in {"None", "datetime"}

WithinInstants(r) ==
    /\ (startVal.kind = "datetime") =>
           EpochSec(startVal) <= EpochSec(r.start_timestamp)
    /\ (endVal.kind = "datetime") =>
           EpochSec(r.start_timestamp) <= EpochSec(endVal)

\* C1: with bounds that are instants (or absent), the filtered records are
\* exactly the acquired records r with start <= r.start_timestamp and
\* r.start_timestamp <= end, both inclusive, in the acquired order, none
\* added, duplicated or altered.
C1_InstantBoundsInclusive ==
    (Filtered /\ InstantOrAbsent(startVal) /\ InstantOrAbsent(endVal))
        => df = SelectSeq(acquired, WithinInstants)

\* a record exactly at the start instant is kept, another one is dropped
C1_Witness ==
    /\ Filtered
    /\ startVal.kind = "datetime" /\ endVal.kind = "datetime"
    /\ Len(df) < Len(acquired)
    /\ \E i \in 1..Len(df) :
          EpochSec(df[i].start_timestamp) = EpochSec(startVal)

\* C2: with start = end = the calendar date D, the filtered records are
\* exactly the acquired records whose date in the local timezone is D.
C2_LocalCalendarDate ==
    (Filtered /\ startVal.kind = "date" /\ endVal.kind = "date"
              /\ startVal.day = endVal.day)
        => df = SelectSeq(acquired,
                  LAMBDA r : LocalDate(r.start_timestamp, localOff) = startVal.day)

\* the start and end filters of main, applied to a sequence
ApplyFilters(d, s, e) ==
    LET afterStart == IF s.kind = "None" THEN d ELSE KeepFrom(d, s)
    IN  IF e.kind = "None" THEN afterStart ELSE KeepUpTo(afterStart, e)

\* C10: filtering the filtered sequence again with the same bounds returns
\* it unchanged.
C10_FilterIdempotent ==
    Filtered => ApplyFilters(df, startVal, endVal) = df

\* a date bound mixed with an instant bound, keeping some rows and
\* dropping others
C10_Witness ==
    /\ Filtered
    /\ startVal.kind = "date" /\ endVal.kind = "datetime"
    /\ Len(df) >= 1 /\ Len(df) < Len(acquired)

----------------------------------------------------------------------------

RenderKinds == {"table", "json", "csv"}

Rendered == \E i \in 1..Len(out) : out[i].kind \in RenderKinds

Echoed(t) ==
    \E i \in 1..Len(out) : out[i].kind = "echo" /\ out[i].text = t

UnknownFormatReported ==
    \E i \in 1..Len(out) :
        /\ out[i].kind = "echo"
        /\ out[i].text = "Unknown output format: "
        /\ out[i].value = fmtArg

NoHistoryReported == Echoed("No history found for the given date range.")

ColumnsReported ==
    \E i \in 1..Len(out) :
        /\ out[i].kind = "echo"
        /\ out[i].text = "Available columns are: "
        /\ out[i].columns = csv.cols

\* str.lower() on the format texts
Lower ==
    [f \in FormatTexts |->
        IF f = "JSON" THEN "json" ELSE IF f = "Table" THEN "table" ELSE f]

\* the texts of BoundTexts that parse_date_or_datetime accepts
ValidBoundTexts ==
    {<<>>, TxtDate, TxtShortDate, TxtClock, TxtClockSec, TxtNaiveIso,
     TxtAwareIso}

\* main has come to the choice of the output format and the selected
\* columns exist
AtOutput == pc = "render" /\ {"command", "cwd"} \subseteq csv.cols

\* C3 as stated: a run whose --format value is not table, json or csv (in
\* any casing) reports "Unknown output format: <value>" and exits with
\* code 1, whatever the records and the bounds (taken here over the runs
\* that acquired records and were given bounds that parse).
C3_UnknownFormatAlways ==
    (/\ pc = "done" /\ Lower[fmtArg] \notin RenderKinds
     /\ acquired # <<>> /\ AllCols \subseteq csv.cols
     /\ startArg \in ValidBoundTexts /\ endArg \in ValidBoundTexts)
        => (UnknownFormatReported /\ exitCode = 1)

\* C3 amended: a run whose --format value is not table, json or csv (in
\* any casing) and that comes to the choice of the output format (history
\* acquired with its command and cwd columns, both bounds parsed, a record
\* left by the filter) reports "Unknown output format: <value>" and exits
\* with code 1.
C3_UnknownFormatAtOutput ==
    [][(AtOutput /\ Lower[fmtArg] \notin RenderKinds)
          => (pc' = "done" /\ exitCode' = 1 /\ UnknownFormatReported'
              /\ ~Rendered')]_vars

C3_Witness ==
    /\ pc = "done" /\ fmtArg = "xml"
    /\ Len(df) >= 1
    /\ UnknownFormatReported /\ exitCode = 1

\* C4: a --format value that is table, json or csv in any casing renders
\* that format and exits 0, and never takes the unknown-format path.
C4_FormatCaseInsensitive ==
    [][(AtOutput /\ Lower[fmtArg] \in RenderKinds)
          => (/\ pc' = "done" /\ exitCode' = 0
              /\ out'[Len(out')].kind = Lower[fmtArg]
              /\ ~UnknownFormatReported')]_vars

\* the shell ran and its output holds no history record
NoRecordAcquired ==
    /\ procRet = 0
    /\ csv.cols = {} \/ "start_timestamp" \in csv.cols
    /\ \A i \in 1..Len(csv.rows) : csv.rows[i].start_timestamp.kind = "null"

\* C5: when no record was acquired, or the filter leaves none, the run
\* prints the "no history found" message, exits with code 0 and renders
\* nothing.
C5_NoHistoryExitsZero ==
    (/\ pc = "done"
     /\ startArg \in ValidBoundTexts /\ endArg \in ValidBoundTexts
     /\ NoRecordAcquired \/ (acquired # <<>> /\ df = <<>>))
        => (NoHistoryReported /\ exitCode = 0 /\ ~Rendered)

\* C6: when the CSV has no start_timestamp column, the columns present are
\* reported and the run ends, with exit code 1, by the typer.Exit(code=1)
\* raised for the missing column.
C6_SchemaErrorExit ==
    (pc = "done" /\ procRet = 0 /\ csv.cols # {}
                 /\ "start_timestamp" \notin csv.cols)
        => (ColumnsReported /\ exitCode = 1 /\ exc = ExitCode(1))

\* C7: a failure of parse_date_or_datetime on a non-empty text is always
\* BadParameter naming that text.
C7_OnlyBadParameter ==
    [][/\ (pc = "filter_start" /\ pc' = "done") => exc' = BadParameter(startArg)
       /\ (pc = "filter_end" /\ pc' = "done") => exc' = BadParameter(endArg)]_vars

\* what the first-match order gives for a text other than a bad clock time:
\* val is the value returned when raised is FALSE, e the exception otherwise
Classified(arg, val, raised, e) ==
    /\ (arg = <<>>) => (~raised /\ val = NoneVal)
    /\ (arg = TxtClock) =>
          (~raised /\ val = DatetimeVal(LocalDate(now, localOff), 9 * 3600,
                                        localOff))
    /\ (arg = TxtClockSec) =>
          (~raised /\ val = DatetimeVal(LocalDate(now, localOff),
                                        23 * 3600 + 30 * 60 + 15, localOff))
    /\ (arg = TxtDate) => (~raised /\ val = DateVal(Ordinal(2024, 1, 2)))
    /\ (arg = TxtShortDate) => (~raised /\ val = DateVal(Ordinal(2024, 1, 3)))
    /\ (arg = TxtJunk) => (raised /\ e = BadParameter(arg))
    /\ (arg = TxtNaiveIso) =>
          (~raised /\ val = DatetimeVal(Ordinal(2024, 1, 2), 23 * 3600,
                                        localOff))
    /\ (arg = TxtAwareIso) =>
          (/\ ~raised /\ val.kind = "datetime" /\ val.off = localOff
           /\ EpochSec(val) = 2 * 86400 + 1800 - 7200)
    /\ (arg = TxtMinIso) => (raised \/ val.kind = "datetime")

C9_NoOutputBeforeError ==
    /\ Rendered => (pc = "done" /\ exitCode = 0 /\ exc = NoExc)
    /\ (exc # NoExc) => pc = "done"
    /\ (pc = "done" /\ exitCode # 0) => ~Rendered

\* a run that failed at the last step before rendering
C9_Witness ==
    /\ pc = "done" /\ exitCode = 1 /\ exc = ExitCode(1)
    /\ UnknownFormatReported /\ ~Rendered /\ Len(df) >= 1

====
